---- MODULE Spec2Model ----
(***************************************************************************)
(* FInAT FiniteElementBase (finat/finiteelementbase.py): the derived       *)
(* entity-closure DOF map, the entity-support DOF map, their caches, and   *)
(* the placeholder orientation table permutations().                       *)
(*                                                                         *)
(* Topological dimensions are sequences: <<d>> on a simple cell, <<d0,d1>> *)
(* on a product cell (the tuple keys of a TensorProductCell).  Entity ids  *)
(* and DOF ids are naturals starting at 0.  Python lists are sequences,    *)
(* Python dicts are functions.                                             *)
(***************************************************************************)
EXTENDS Integers, Sequences, FiniteSets, TLC

\* ------------------------------------------------------------------ bounds
\* Largest per-entity DOF count of a dimension in the enumerated elements.
MaxDofsPerEntity == 2
\* Largest number of closure / support queries on one element.
MaxCalls == 3
\* Tabulated basis values range over -MaxVal..MaxVal (units of 1e-4).
MaxVal == 2
\* Quadrature weights range over 1..MaxWeight.
MaxWeight == 1
\* Largest number of permutations() calls on one element.
MaxTables == 2
\* Largest number of in-place modifications of returned permutation lists.
MaxMutations == 1

\* ------------------------------------------------------ program constants
\* eps = 1.e-8; integrals are counted in units of 1e-8.
Eps == 1

\* --------------------------------------------------------- small utilities
RECURSIVE Factorial(_)
Factorial(n) == IF n <= 1 THEN 1 ELSE n * Factorial(n - 1)

RECURSIVE Flatten(_)
\* itertools.chain(*lists): the concatenation of a sequence of sequences
Flatten(ss) == IF ss = <<>> THEN <<>> ELSE Head(ss) \o Flatten(Tail(ss))

RECURSIVE Insert(_, _)
Insert(x, s) ==
    IF s = <<>> THEN <<x>>
    ELSE IF x <= Head(s) THEN <<x>> \o s
    ELSE <<Head(s)>> \o Insert(x, Tail(s))

RECURSIVE Sorted(_)
\* sorted(iterable): ascending, every occurrence kept
Sorted(s) == IF s = <<>> THEN <<>> ELSE Insert(Head(s), Sorted(Tail(s)))

Range(s) == {s[i] : i \in DOMAIN s}

RECURSIVE SumSeq(_)
SumSeq(s) == IF s = <<>> THEN 0 ELSE Head(s) + SumSeq(Tail(s))

RECURSIVE SeqOfSet(_)
\* the elements of a finite set of naturals in ascending order
SeqOfSet(S) ==
    IF S = {} THEN <<>>
    ELSE LET m == CHOOSE x \in S : \A y \in S : x <= y
         IN <<m>> \o SeqOfSet(S \ {m})

Reverse(s) == [i \in 1..Len(s) |-> s[Len(s) + 1 - i]]

\* ------------------------------------------------------- reference cells
\* topology: dimension -> entity id -> the vertices of the entity
PointTopology == (<<0>> :> (0 :> <<0>>))

IntervalTopology ==
    (<<0>> :> (0 :> <<0>> @@ 1 :> <<1>>)) @@
    (<<1>> :> (0 :> <<0, 1>>))

TriangleTopology ==
    (<<0>> :> (0 :> <<0>> @@ 1 :> <<1>> @@ 2 :> <<2>>)) @@
    (<<1>> :> (0 :> <<1, 2>> @@ 1 :> <<0, 2>> @@ 2 :> <<0, 1>>)) @@
    (<<2>> :> (0 :> <<0, 1, 2>>))

\* A square-based pyramid (apex 4): its faces are one quadrilateral and four
\* triangles, so the entities of dimension 2 differ in size.
PyramidTopology ==
    (<<0>> :> (0 :> <<0>> @@ 1 :> <<1>> @@ 2 :> <<2>> @@ 3 :> <<3>> @@ 4 :> <<4>>)) @@
    (<<1>> :> (0 :> <<0, 1>> @@ 1 :> <<1, 2>> @@ 2 :> <<2, 3>> @@ 3 :> <<0, 3>> @@
               4 :> <<0, 4>> @@ 5 :> <<1, 4>> @@ 6 :> <<2, 4>> @@ 7 :> <<3, 4>>)) @@
    (<<2>> :> (0 :> <<0, 1, 2, 3>> @@ 1 :> <<0, 1, 4>> @@ 2 :> <<1, 2, 4>> @@
               3 :> <<2, 3, 4>> @@ 4 :> <<0, 3, 4>>)) @@
    (<<3>> :> (0 :> <<0, 1, 2, 3, 4>>))

NumEntities(top, dim) == Cardinality(DOMAIN top[dim])

\* The topology of the product of two simple cells: entity (e0, e1) of
\* dimension (d0, d1) has id e0 * n1 + e1 and the vertices v0 * nv1 + v1.
ProductTopology(ta, tb) ==
    LET nvb == NumEntities(tb, <<0>>)
    IN [dim \in {da \o db : da \in DOMAIN ta, db \in DOMAIN tb} |->
          LET da == <<dim[1]>>
              db == <<dim[2]>>
              nb == NumEntities(tb, db)
          IN [e \in 0..(NumEntities(ta, da) * nb - 1) |->
                LET va == ta[da][e \div nb]
                    vb == tb[db][e % nb]
                IN [i \in 1..(Len(va) * Len(vb)) |->
                      va[((i - 1) \div Len(vb)) + 1] * nvb
                        + vb[((i - 1) % Len(vb)) + 1]]]]

\* lexicographic order of dimension tuples (Python's tuple comparison)
DimLess(a, b) ==
    \E i \in 1..Len(a) :
        /\ i <= Len(b)
        /\ a[i] < b[i]
        /\ \A j \in 1..(i - 1) : a[j] = b[j]

RECURSIVE DimSeqOf(_)
DimSeqOf(D) ==
    IF D = {} THEN <<>>
    ELSE LET m == CHOOSE x \in D : \A y \in D \ {x} : DimLess(x, y)
         IN <<m>> \o DimSeqOf(D \ {m})

\* every (dimension, entity) pair of a topology, sorted
AllEntities(top) ==
    LET dims == DimSeqOf(DOMAIN top)
    IN Flatten([i \in 1..Len(dims) |->
                  [k \in 1..NumEntities(top, dims[i]) |-> <<dims[i], k - 1>>]])

\* cell.sub_entities: for each entity the sorted list of the (dimension,
\* entity) pairs whose vertices all are vertices of it; the entity itself is
\* among them, and so is every sub-entity of a sub-entity.
SubEntities(top) ==
    [d \in DOMAIN top |->
       [e \in DOMAIN top[d] |->
          SelectSeq(AllEntities(top),
                    LAMBDA p : Range(top[p[1]][p[2]]) \subseteq Range(top[d][e]))]]

SimpleCell(nm, top) ==
    [name |-> nm, product |-> FALSE, topology |-> top,
     sub_entities |-> SubEntities(top), cells |-> <<>>]

ProductCell(nm, a, b) ==
    [name |-> nm, product |-> TRUE,
     topology |-> ProductTopology(a.topology, b.topology),
     sub_entities |-> SubEntities(ProductTopology(a.topology, b.topology)),
     cells |-> <<a.topology, b.topology>>]

Point == SimpleCell("point", PointTopology)
Interval == SimpleCell("interval", IntervalTopology)
Triangle == SimpleCell("triangle", TriangleTopology)
Pyramid == SimpleCell("pyramid", PyramidTopology)
Quadrilateral == ProductCell("interval*interval", Interval, Interval)

\* the (dimension, entity) pairs of a cell
Entities(cell) == Range(AllEntities(cell.topology))

\* --------------------------------------------------------------- elements
\* What an enumerated element deviates in from a well-formed one: an entity
\* or a dimension of the cell without an entry in entity_dofs(), or one
\* entity carrying one DOF more than the others of its dimension.
NoDefect == [kind |-> "none", at |-> <<>>]

Defects(cell, kinds) ==
    {NoDefect}
    \cup {[kind |-> "missing_entity", at |-> p] :
            p \in {q \in Entities(cell) : "missing_entity" \in kinds}}
    \cup {[kind |-> "missing_dim", at |-> d] :
            d \in {c \in DOMAIN cell.topology : "missing_dim" \in kinds}}
    \cup {[kind |-> "nonuniform", at |-> p] :
            p \in {q \in Entities(cell) :
                     /\ "nonuniform" \in kinds
                     /\ NumEntities(cell.topology, q[1]) > 1}}

\* entity_dofs() of an element with n[dim] DOFs on each entity of dimension
\* dim, numbered consecutively along the entity order ents.
EntityDofsTable(cell, n, ents, defect) ==
    LET count(p) == n[p[1]]
                      + (IF defect.kind = "nonuniform" /\ defect.at = p
                         THEN 1 ELSE 0)
        pos(p) == CHOOSE i \in 1..Len(ents) : ents[i] = p
        offset(p) == SumSeq([j \in 1..(pos(p) - 1) |-> count(ents[j])])
        dims == {d \in DOMAIN cell.topology :
                   ~(defect.kind = "missing_dim" /\ defect.at = d)}
        ids(d) == {e \in DOMAIN cell.topology[d] :
                     ~(defect.kind = "missing_entity" /\ defect.at = <<d, e>>)}
    IN [d \in dims |->
          [e \in ids(d) |->
             [k \in 1..count(<<d, e>>) |-> offset(<<d, e>>) + k - 1]]]

\* The number of basis functions an entity_dofs() table numbers.
SpaceDimension(table) ==
    SumSeq([i \in 1..Len(DimSeqOf(DOMAIN table)) |->
              LET row == table[DimSeqOf(DOMAIN table)[i]]
              IN SumSeq([j \in 1..Len(SeqOfSet(DOMAIN row)) |->
                           Len(row[SeqOfSet(DOMAIN row)[j]])])])

\* An element instance, as far as FiniteElementBase reads it.  kind says
\* which tabulations basis_evaluation may return (see BasisEvaluation).
Element(cell, table, defect, ishape, vshape, kind) ==
    [cell |-> cell, entity_dofs |-> table, defect |-> defect,
     index_shape |-> ishape, value_shape |-> vshape, kind |-> kind]

ScalarElement(cell, n, ents, defect, kind) ==
    Element(cell, EntityDofsTable(cell, n, ents, defect), defect.kind,
            <<SpaceDimension(EntityDofsTable(cell, n, ents, defect))>>, <<>>, kind)

\* the scalar elements on a cell: any DOF count per dimension, numbered
\* along the sorted entities or against them, with any defect of the kinds
ElementsOn(cell, kinds) ==
    {ScalarElement(cell, n, ents, defect, "generic") :
        n \in [DOMAIN cell.topology -> 0..MaxDofsPerEntity],
        ents \in {AllEntities(cell.topology), Reverse(AllEntities(cell.topology))},
        defect \in Defects(cell, kinds)}

\* DOFs on the vertices only, one each (degree-1 Lagrange numbering).
VertexDofs(cell) == [d \in DOMAIN cell.topology |-> IF d = <<0>> THEN 1 ELSE 0]

\* the elements entity_support_dofs() is exercised on
SupportElements ==
    {ScalarElement(Interval, VertexDofs(Interval), AllEntities(IntervalTopology),
                   NoDefect, k) : k \in {"generic", "nodal"}}
    \cup {ScalarElement(Interval, VertexDofs(Interval),
                        AllEntities(IntervalTopology),
                        [kind |-> "missing_entity", at |-> <<<<0>>, 1>>], "generic")}
    \cup {ScalarElement(Triangle, VertexDofs(Triangle),
                        AllEntities(TriangleTopology), NoDefect, "lagrange1")}
    \cup {Element(Point, (<<0>> :> (0 :> <<0, 1, 2, 3>>)), "none",
                  <<2, 2>>, <<>>, "generic"),
          Element(Point, (<<0>> :> (0 :> <<0>>)), "none",
                  <<1, 2>>, <<2>>, "generic")}

\* ------------------------------------------------------------------ state
VARIABLES
    elem,           \* the element instance
    closure_cache,  \* <<>> or <<[id, value]>>: the cached _entity_closure_dofs
    support_cache,  \* <<>> or <<[id, value]>>: the cached _entity_support_dofs
    ret_closure,    \* ids of the objects entity_closure_dofs() has returned
    ret_support,    \* ids of the objects entity_support_dofs() has returned
    probes,         \* call counts of the collaborators
    calls,          \* accessor calls made so far
    next_id,        \* the next fresh object id
    last,           \* what the last completed call did
    sup,            \* the position of a running _entity_support_dofs
    asked,          \* the dimensions queried through the free function
    heap,           \* the list objects of the permutation tables: id -> list
    tables,         \* the tables permutations() has returned, in call order
    mutations       \* in-place modifications of returned lists so far

permvars == <<heap, tables, mutations>>

vars == <<elem, closure_cache, support_cache, ret_closure, ret_support,
          probes, calls, next_id, last, sup, asked, heap, tables, mutations>>

NoCall == [op |-> "none", outcome |-> "none", id |-> -1, dim |-> <<>>, ret |-> <<>>]

SupIdle ==
    [pc |-> "idle", via |-> "none", arg |-> <<>>, dims |-> <<>>, dim |-> <<>>,
     ents |-> <<>>, esd |-> <<>>, result |-> <<>>, weights |-> <<>>,
     f |-> -1, arr |-> <<>>]

\* ------------------------------------------------------- closure DOF map
\* A (dimension, sub-entity) pair of the cell with no entry in entity_dofs().
Unmapped(el, p) ==
    \/ p[1] \notin DOMAIN el.entity_dofs
    \/ p[2] \notin DOMAIN el.entity_dofs[p[1]]

\* entity_dofs[d][se]
DofsOn(el, p) == el.entity_dofs[p[1]][p[2]]

\* chain(...) without the sort
ClosureListUnsorted(el, d, e) ==
    Flatten([i \in 1..Len(el.cell.sub_entities[d][e]) |->
               DofsOn(el, el.cell.sub_entities[d][e][i])])

\* the entity's own DOFs only
ClosureListOwn(el, d, e) == Sorted(DofsOn(el, <<d, e>>))

\* sorted(chain(*[entity_dofs[d][se] for d, se in sub_entities])): the DOFs
\* of exactly the pairs the cell lists for the entity, in ascending order.
ClosureList(el, d, e) ==
    Sorted(Flatten([i \in 1..Len(el.cell.sub_entities[d][e]) |->
                      DofsOn(el, el.cell.sub_entities[d][e][i])]))

\* A lookup that skips the pairs without an entry instead of raising.
EntityClosureDofsLenient(el) ==
    [outcome |-> "ok",
     value |->
       [d \in DOMAIN el.cell.sub_entities |->
          [e \in DOMAIN el.cell.sub_entities[d] |->
             Sorted(Flatten(
               [i \in 1..Len(el.cell.sub_entities[d][e]) |->
                  IF Unmapped(el, el.cell.sub_entities[d][e][i]) THEN <<>>
                  ELSE DofsOn(el, el.cell.sub_entities[d][e][i])]))]]]

\* The body of _entity_closure_dofs: the closure list of every entity of
\* cell.sub_entities; a listed pair without an entry in entity_dofs() raises
\* KeyError and no map is built.
EntityClosureDofsBody(el) ==
    IF \E d \in DOMAIN el.cell.sub_entities :
         \E e \in DOMAIN el.cell.sub_entities[d] :
           \E i \in 1..Len(el.cell.sub_entities[d][e]) :
              Unmapped(el, el.cell.sub_entities[d][e][i])
    THEN [outcome |-> "KeyError", value |-> <<>>]
    ELSE [outcome |-> "ok",
          value |-> [d \in DOMAIN el.cell.sub_entities |->
                       [e \in DOMAIN el.cell.sub_entities[d] |->
                          ClosureList(el, d, e)]]]

\* a plain property: nothing is ever found cached
NeverCached(cache) == FALSE

\* @cached_property: the value is computed on the first access and found in
\* the instance afterwards.
Cached(cache) == cache # <<>>

\* entity_closure_dofs(): the cached map if there is one; otherwise the
\* computation runs, and its result is stored only if it did not raise.
EntityClosureDofs ==
    /\ sup.pc = "idle"
    /\ calls < MaxCalls
    /\ calls' = calls + 1
    /\ IF Cached(closure_cache)
       THEN /\ last' = [NoCall EXCEPT !.op = "closure", !.outcome = "ok",
                                      !.id = closure_cache[1].id]
            /\ ret_closure' = ret_closure \cup {closure_cache[1].id}
            /\ UNCHANGED <<closure_cache, probes, next_id>>
       ELSE LET r == EntityClosureDofsBody(elem)
            IN /\ probes' = [probes EXCEPT !.entity_dofs = @ + 1]
               /\ IF r.outcome = "ok"
                  THEN /\ closure_cache' = <<[id |-> next_id, value |-> r.value]>>
                       /\ ret_closure' = ret_closure \cup {next_id}
                       /\ next_id' = next_id + 1
                       /\ last' = [NoCall EXCEPT !.op = "closure",
                                                 !.outcome = "ok", !.id = next_id]
                  ELSE /\ last' = [NoCall EXCEPT !.op = "closure",
                                                 !.outcome = r.outcome]
                       /\ UNCHANGED <<closure_cache, ret_closure, next_id>>
    /\ UNCHANGED <<elem, support_cache, ret_support, sup, asked, permvars>>

\* ------------------------------------------------------- support DOF map
\* the index tuples of an array of the given shape
MultiIndices(shape) ==
    {idx \in [1..Len(shape) -> 0..(SumSeq(shape))] :
        \A i \in 1..Len(shape) : idx[i] < shape[i]}

RECURSIVE Product(_)
Product(s) == IF s = <<>> THEN 1 ELSE Head(s) * Product(Tail(s))

\* the position of idx in the row-major (C order) flattening
RowMajor(idx, shape) ==
    SumSeq([i \in 1..Len(shape) |->
              idx[i] * Product(SubSeq(shape, i + 1, Len(shape)))])

\* evaluation.arr.flatten()
Flattened(arr, shape) ==
    [k \in 1..Product(shape) |->
       arr[CHOOSE idx \in MultiIndices(shape) : RowMajor(idx, shape) = k - 1]]

RECURSIVE SumOver(_, _)
\* the sum of f[x] over the finite set S
SumOver(S, f) ==
    IF S = {} THEN 0
    ELSE LET x == CHOOSE y \in S : TRUE
         IN f[x] + SumOver(S \ {x}, f)

\* make_quadrature(entity_cell, 2 * degree): the weights of a rule on the
\* sub-cell of the given dimension, one point per vertex of the sub-cell.
MakeQuadrature(cell, dim) ==
    [1..Len(cell.topology[dim][0]) -> 1..MaxWeight]

\* The degree-1 Lagrange basis at the points of a rule on an entity, in
\* units of 1e-4: the basis function of vertex v is the barycentric
\* coordinate of v, zero on every entity that does not hold v and positive
\* at the interior points of one that does (point q lies nearest to the
\* q-th vertex of the entity).
Lagrange1Value(verts, v, q) ==
    IF v \notin Range(verts) THEN 0
    ELSE IF Len(verts) = 1 THEN 10000
    ELSE IF Len(verts) = 2 THEN (IF verts[q] = v THEN 7887 ELSE 2113)
    ELSE (IF verts[q] = v THEN 6667 ELSE 1667)

\* the vertex whose DOF is k (degree-1 Lagrange: one DOF per vertex)
VertexOfDof(el, k) ==
    CHOOSE v \in DOMAIN el.entity_dofs[<<0>>] : el.entity_dofs[<<0>>][v] = <<k>>

\* basis_evaluation(0, ps, entity): a table vals[beta + zeta][q].  A
\* "generic" element may tabulate anything; a "nodal" element (scalar, its
\* basis functions attached to the entities as entity_dofs() says) tabulates
\* zero on an entity for every DOF that is not on the entity's closure;
\* a "lagrange1" element tabulates the degree-1 Lagrange basis.
BasisEvaluation(el, entity, nq) ==
    IF el.kind = "nodal"
    THEN {[idx \in MultiIndices(el.index_shape \o el.value_shape) |->
             [q \in 1..nq |->
                IF idx[1] \in Range(ClosureList(el, entity[1], entity[2]))
                THEN a[idx[1]] ELSE 0]] :
            a \in [Range(ClosureList(el, entity[1], entity[2]))
                     -> (0 - MaxVal)..MaxVal]}
    ELSE IF el.kind = "lagrange1"
    THEN {[idx \in MultiIndices(el.index_shape \o el.value_shape) |->
             [q \in 1..nq |->
                Lagrange1Value(el.cell.topology[entity[1]][entity[2]],
                               VertexOfDof(el, idx[1]), q)]]}
    ELSE [MultiIndices(el.index_shape \o el.value_shape)
            -> [1..nq -> (0 - MaxVal)..MaxVal]]

\* the entity of highest dimension
CellEntity(cell) == AllEntities(cell.topology)[Len(AllEntities(cell.topology))]

\* tabulation on the whole cell, whatever the entity
TabulateOnCell(el, dim, f, nq) == BasisEvaluation(el, CellEntity(el.cell), nq)

\* self.basis_evaluation(0, quad.point_set, entity=(entity_dim, f))
Tabulate(el, dim, f, nq) == BasisEvaluation(el, <<dim, f>>, nq)

\* The evaluated ComponentTensor(ints, beta): per basis index beta the sum
\* over the points of (the sum over zeta of vals[beta + zeta]^2) * weight.
Integrals(el, vals, weights) ==
    [beta \in MultiIndices(el.index_shape) |->
       SumSeq([q \in 1..Len(weights) |->
                 SumOver(MultiIndices(el.value_shape),
                         [zeta \in MultiIndices(el.value_shape) |->
                            vals[beta \o zeta][q] * vals[beta \o zeta][q]])
                   * weights[q]])]

\* i >= eps
AtLeastEps(i) == i >= Eps

\* i > eps
ExceedsEps(i) == i > Eps

RECURSIVE SupportedFrom(_, _)
SupportedFrom(ints, k) ==
    IF k > Len(ints) THEN <<>>
    ELSE (IF ExceedsEps(ints[k]) THEN <<k - 1>> ELSE <<>>)
           \o SupportedFrom(ints, k + 1)

\* [dof for dof, i in enumerate(ints) if i > eps]
Supported(ints) == SupportedFrom(ints, 1)

\* the entity ids of the cell at the dimension
EntitiesOfCell(el, dim) == SeqOfSet(DOMAIN el.cell.sub_entities[dim])

\* self.entity_dofs()[entity_dim].keys()
EntitiesWithDofs(el, dim) == SeqOfSet(DOMAIN el.entity_dofs[dim])

\* self.cell.sub_entities.keys()
SupportDims(el) == DimSeqOf(DOMAIN el.cell.sub_entities)

\* A query of the support map, through the method (via = "method") or the
\* free function entity_support_dofs(elem, entity_dim) (via = "function"):
\* answered from the cache, or _entity_support_dofs starts.
QuerySupport(via, arg) ==
    /\ sup.pc = "idle"
    /\ calls < MaxCalls
    /\ calls' = calls + 1
    /\ asked' = IF via = "function" THEN asked \cup {arg} ELSE asked
    /\ IF Cached(support_cache)
       THEN /\ last' = [op |-> via, outcome |-> "ok", id |-> support_cache[1].id,
                        dim |-> arg,
                        ret |-> IF via = "function"
                                THEN support_cache[1].value[arg] ELSE <<>>]
            /\ ret_support' = IF via = "method"
                              THEN ret_support \cup {support_cache[1].id}
                              ELSE ret_support
            /\ UNCHANGED sup
       ELSE /\ sup' = [SupIdle EXCEPT !.pc = "dims", !.via = via, !.arg = arg,
                                      !.dims = SupportDims(elem)]
            /\ UNCHANGED <<last, ret_support>>
    /\ UNCHANGED <<elem, closure_cache, support_cache, ret_closure, probes, next_id,
                   permvars>>

\* FiniteElementBase.entity_support_dofs()
EntitySupportDofs == QuerySupport("method", <<>>)

\* entity_support_dofs(elem, entity_dim)
EntitySupportDofsOfDim ==
    \E entity_dim \in DOMAIN elem.cell.sub_entities :
        QuerySupport("function", entity_dim)

\* The head of the loop over the dimensions: with a dimension left, the
\* quadrature rule of its sub-cell is made and the loop over its entities
\* starts; with none left, esd is returned, cached, and handed to the caller.
SupportNextDim ==
    /\ sup.pc = "dims"
    /\ IF sup.dims # <<>>
       THEN /\ \E w \in MakeQuadrature(elem.cell, Head(sup.dims)) :
                  sup' = [sup EXCEPT !.pc = "entities",
                                     !.dim = Head(sup.dims),
                                     !.dims = Tail(sup.dims),
                                     !.weights = w,
                                     !.ents = EntitiesWithDofs(elem, Head(sup.dims)),
                                     !.result = <<>>]
            /\ probes' = [probes EXCEPT !.make_quadrature = @ + 1]
            /\ UNCHANGED <<support_cache, ret_support, next_id, last>>
       ELSE /\ support_cache' = <<[id |-> next_id, value |-> sup.esd]>>
            /\ next_id' = next_id + 1
            /\ last' = [op |-> sup.via, outcome |-> "ok", id |-> next_id,
                        dim |-> sup.arg,
                        ret |-> IF sup.via = "function"
                                THEN sup.esd[sup.arg] ELSE <<>>]
            /\ ret_support' = IF sup.via = "method"
                              THEN ret_support \cup {next_id} ELSE ret_support
            /\ sup' = SupIdle
            /\ UNCHANGED probes
    /\ UNCHANGED <<elem, closure_cache, ret_closure, calls, asked, permvars>>

\* The head of the loop over the entities of the dimension: with an entity f
\* left, the basis is tabulated on it, the integrals are evaluated and
\* result[f] is the list of the DOFs above the tolerance; with none left,
\* esd[entity_dim] = result.
SupportNextEntity ==
    /\ sup.pc = "entities"
    /\ IF sup.ents # <<>>
       THEN /\ \E vals \in Tabulate(elem, sup.dim, Head(sup.ents), Len(sup.weights)) :
                  LET arr == Integrals(elem, vals, sup.weights)
                  IN sup' = [sup EXCEPT
                               !.f = Head(sup.ents),
                               !.ents = Tail(sup.ents),
                               !.arr = arr,
                               !.result = (Head(sup.ents) :>
                                             Supported(Flattened(arr, elem.index_shape)))
                                          @@ sup.result]
            /\ probes' = [probes EXCEPT !.basis_evaluation = @ + 1]
       ELSE /\ sup' = [sup EXCEPT !.pc = "dims", !.f = -1, !.arr = <<>>,
                                  !.weights = <<>>, !.result = <<>>,
                                  !.esd = (sup.dim :> sup.result) @@ sup.esd]
            /\ UNCHANGED probes
    /\ UNCHANGED <<elem, closure_cache, support_cache, ret_closure, ret_support,
                   calls, next_id, last, asked, permvars>>

\* ------------------------------------------------------- permutations()
\* the first element, whether or not there are others
AnyOf(S) ==
    [ok |-> S # {}, v |-> IF S = {} THEN -1 ELSE CHOOSE x \in S : \A y \in S : x <= y]

\* "x, = set(...)": the one element of the set; the unpacking raises
\* ValueError unless the set has exactly one.
TheOnly(S) ==
    IF Cardinality(S) = 1 THEN [ok |-> TRUE, v |-> CHOOSE x \in S : TRUE]
    ELSE [ok |-> FALSE, v |-> -1]

\* factorial(m) orientations
HalfOrientations(m) == Factorial(m)

\* numpy.math.factorial(m)*2
NumOrientations(m) == Factorial(m) * 2

\* list(range(n))
Identity(n) == [i \in 1..n |-> i - 1]

\* the DOF counts of the entities of a dimension
DofCounts(el, dim) ==
    {Len(el.entity_dofs[dim][e]) : e \in DOMAIN el.entity_dofs[dim]}

\* the vertex counts of the entities of a dimension of a topology
ConeSizes(top, dim) == {Len(top[dim][e]) : e \in DOMAIN top[dim]}

\* What permutations() builds for one dimension: the length n of perm and
\* the orientation keys, or the failure of one of the unpackings.
DimShape(el, dim) ==
    LET n == TheOnly(DofCounts(el, dim))
    IN IF el.cell.product
       THEN LET m0 == TheOnly(ConeSizes(el.cell.cells[1], <<dim[1]>>))
                m1 == TheOnly(ConeSizes(el.cell.cells[2], <<dim[2]>>))
            IN [ok |-> n.ok /\ Len(dim) = 2 /\ m0.ok /\ m1.ok,
                n |-> n.v,
                keys |-> IF m0.ok /\ m1.ok
                         THEN {<<i0, i1>> : i0 \in 0..(NumOrientations(m0.v) - 1),
                                            i1 \in 0..(NumOrientations(m1.v) - 1)}
                         ELSE {}]
       ELSE IF dim = <<0>>
       THEN [ok |-> n.ok, n |-> n.v, keys |-> {0}]
       ELSE LET m == TheOnly(ConeSizes(el.cell.topology, dim))
            IN [ok |-> n.ok /\ m.ok,
                n |-> n.v,
                keys |-> IF m.ok THEN 0..(NumOrientations(m.v) - 1) ELSE {}]

\* the same list objects in every call
ListIdShared(base, i) == i - 1

\* perm = list(range(n)): a new list object for the i-th dimension of a call
\* whose first new object is base.
ListId(base, i) == base + i - 1

\* permutations(): per dimension of entity_dofs() one new identity list,
\* stored under every orientation key; a failed unpacking raises ValueError
\* and nothing is returned.
PermutationsCall ==
    /\ calls < MaxTables
    /\ calls' = calls + 1
    /\ LET dims == DimSeqOf(DOMAIN elem.entity_dofs)
           idx(d) == CHOOSE i \in 1..Len(dims) : dims[i] = d
       IN IF \A d \in DOMAIN elem.entity_dofs : DimShape(elem, d).ok
          THEN /\ tables' = Append(tables,
                     [d \in DOMAIN elem.entity_dofs |->
                        [o \in DimShape(elem, d).keys |-> ListId(next_id, idx(d))]])
               /\ heap' = heap @@
                     [id \in {ListId(next_id, i) : i \in 1..Len(dims)} |->
                        Identity(DimShape(elem,
                           dims[CHOOSE i \in 1..Len(dims) : ListId(next_id, i) = id]).n)]
               /\ next_id' = next_id + Len(dims)
               /\ last' = [NoCall EXCEPT !.op = "permutations", !.outcome = "ok",
                                         !.id = Len(tables) + 1]
          ELSE /\ last' = [NoCall EXCEPT !.op = "permutations",
                                         !.outcome = "ValueError"]
               /\ UNCHANGED <<heap, tables, next_id>>
    /\ UNCHANGED <<elem, closure_cache, support_cache, ret_closure, ret_support,
                   probes, sup, asked, mutations>>

\* A caller modifies, in place, the list it finds under one orientation key
\* of a returned table: it reverses the list or removes its last item.
ModifyPermutation ==
    /\ mutations < MaxMutations
    /\ mutations' = mutations + 1
    /\ \E t \in 1..Len(tables) : \E d \in DOMAIN tables[t] :
         \E o \in DOMAIN tables[t][d] :
           LET id == tables[t][d][o]
           IN /\ \/ /\ Reverse(heap[id]) # heap[id]
                    /\ heap' = [heap EXCEPT ![id] = Reverse(heap[id])]
                 \/ /\ heap[id] # <<>>
                    /\ heap' = [heap EXCEPT ![id] = SubSeq(heap[id], 1, Len(heap[id]) - 1)]
              /\ last' = [NoCall EXCEPT !.op = "modify", !.outcome = "ok",
                                        !.id = id, !.dim = <<t>>]
    /\ UNCHANGED <<elem, closure_cache, support_cache, ret_closure, ret_support,
                   probes, calls, next_id, sup, asked, tables>>

InitCommon ==
    /\ closure_cache = <<>>
    /\ support_cache = <<>>
    /\ ret_closure = {}
    /\ ret_support = {}
    /\ probes = [entity_dofs |-> 0, make_quadrature |-> 0, basis_evaluation |-> 0]
    /\ calls = 0
    /\ next_id = 0
    /\ last = NoCall
    /\ sup = SupIdle
    /\ asked = {}
    /\ heap = <<>>
    /\ tables = <<>>
    /\ mutations = 0

\* entity_closure_dofs() is exercised on every element of the point, the
\* interval and the triangle, entries of entity_dofs() missing or not, and
\* on the well-formed elements of the quadrilateral.
InitClosure ==
    /\ elem \in UNION {ElementsOn(c, {"missing_entity", "missing_dim"}) :
                          c \in {Point, Interval, Triangle}}
                 \cup ElementsOn(Quadrilateral, {})
    /\ InitCommon

NextClosure == EntityClosureDofs

SpecClosure == InitClosure /\ [][NextClosure]_vars

InitSupport == elem \in SupportElements /\ InitCommon

NextSupport ==
    \/ EntitySupportDofs
    \/ EntitySupportDofsOfDim
    \/ SupportNextDim
    \/ SupportNextEntity

SpecSupport == InitSupport /\ [][NextSupport]_vars

\* the elements both accessors are exercised on together
CacheElements == {el \in SupportElements : el.cell.name = "interval"}

InitCache == elem \in CacheElements /\ InitCommon

NextCache ==
    \/ EntityClosureDofs
    \/ EntitySupportDofs
    \/ EntitySupportDofsOfDim
    \/ SupportNextDim
    \/ SupportNextEntity

SpecCache == InitCache /\ [][NextCache]_vars

\* permutations() is exercised on every element of the point, the interval
\* and the triangle, and on the elements of the quadrilateral and the
\* pyramid with the same DOF count on every dimension; one entity may carry
\* a DOF more than the others of its dimension.
InitPermutations ==
    /\ elem \in UNION {ElementsOn(c, {"nonuniform"}) : c \in {Point, Interval, Triangle}}
                 \cup UNION {{ScalarElement(c, [d \in DOMAIN c.topology |-> k],
                                             AllEntities(c.topology), defect, "generic") :
                                 k \in 0..MaxDofsPerEntity,
                                 defect \in Defects(c, {"nonuniform"})} :
                                c \in {Quadrilateral, Pyramid}}
    /\ InitCommon

NextPermutations == PermutationsCall \/ ModifyPermutation

SpecPermutations == InitPermutations /\ [][NextPermutations]_vars

\* ------------------------------------------------- claims on the closure
\* the map entity_closure_dofs() has returned
ClosureValue == closure_cache[1].value

StrictlyAscending(s) == \A i \in 1..(Len(s) - 1) : s[i] < s[i + 1]

\* C1: for every dimension d and entity e of cell.sub_entities,
\* entity_closure_dofs()[d][e] is ascending, has no DOF id twice, and holds
\* every DOF id of entity_dofs()[d][e].
C1_ClosureSortedSuperset ==
    closure_cache # <<>> =>
        \A d \in DOMAIN elem.cell.sub_entities :
            \A e \in DOMAIN elem.cell.sub_entities[d] :
                /\ d \in DOMAIN ClosureValue
                /\ e \in DOMAIN ClosureValue[d]
                /\ StrictlyAscending(ClosureValue[d][e])
                /\ Range(elem.entity_dofs[d][e]) \subseteq Range(ClosureValue[d][e])

\* C1 witness: a returned closure list of three or more DOFs that the plain
\* concatenation would not have given in ascending order.
C1_Witness ==
    /\ closure_cache # <<>>
    /\ \E d \in DOMAIN ClosureValue : \E e \in DOMAIN ClosureValue[d] :
          /\ Len(ClosureValue[d][e]) >= 3
          /\ ClosureValue[d][e] # ClosureListUnsorted(elem, d, e)
          /\ elem.entity_dofs[d][e] # <<>>

\* the DOFs of the pairs the cell lists for (d, e)
ListedDofs(d, e) ==
    UNION {Range(elem.entity_dofs[p[1]][p[2]]) :
             p \in Range(elem.cell.sub_entities[d][e])}

\* C2: whenever (d2, e2) is listed as a sub-entity of (d1, e1) with d1 > d2,
\* every DOF of entity_closure_dofs()[d2][e2] is in
\* entity_closure_dofs()[d1][e1]; and the list of (d1, e1) holds the DOFs of
\* the pairs the cell lists for it, nothing found by recursion.
C2_ClosureMonotone ==
    closure_cache # <<>> =>
        \A d1 \in DOMAIN elem.cell.sub_entities :
            \A e1 \in DOMAIN elem.cell.sub_entities[d1] :
                /\ Range(ClosureValue[d1][e1]) = ListedDofs(d1, e1)
                /\ \A p \in Range(elem.cell.sub_entities[d1][e1]) :
                      DimLess(p[1], d1) =>
                          Range(ClosureValue[p[1]][p[2]])
                              \subseteq Range(ClosureValue[d1][e1])

\* C2 witness: a chain (d3, e3) below (d2, e2) below (d1, e1) with DOFs on
\* the lowest entity, which reach the closure of the highest.
C2_Witness ==
    /\ closure_cache # <<>>
    /\ \E d1 \in DOMAIN elem.cell.sub_entities :
         \E e1 \in DOMAIN elem.cell.sub_entities[d1] :
           \E p \in Range(elem.cell.sub_entities[d1][e1]) :
             \E q \in Range(elem.cell.sub_entities[p[1]][p[2]]) :
                /\ DimLess(p[1], d1)
                /\ DimLess(q[1], p[1])
                /\ elem.entity_dofs[q[1]][q[2]] # <<>>
                /\ Range(elem.entity_dofs[q[1]][q[2]])
                       \subseteq Range(ClosureValue[d1][e1])

\* the cell lists a (dimension, sub-entity) pair without an entry in
\* entity_dofs()
MalformedTopology ==
    \E d \in DOMAIN elem.cell.sub_entities :
        \E e \in DOMAIN elem.cell.sub_entities[d] :
            \E p \in Range(elem.cell.sub_entities[d][e]) :
                \/ p[1] \notin DOMAIN elem.entity_dofs
                \/ p[2] \notin DOMAIN elem.entity_dofs[p[1]]

\* C7: on a malformed topology every entity_closure_dofs() call ends in the
\* KeyError, nothing is cached and no map was ever returned; on a well-formed
\* topology the call returns a map.
C7_MalformedTopologyRaises ==
    /\ MalformedTopology =>
          /\ closure_cache = <<>>
          /\ ret_closure = {}
          /\ last.op = "closure" => last.outcome = "KeyError"
    /\ ~MalformedTopology =>
          (last.op = "closure" =>
              /\ last.outcome = "ok"
              /\ closure_cache # <<>>
              /\ last.id = closure_cache[1].id)

\* C7 witness: a second call on a malformed topology has raised again.
C7_Witness ==
    /\ MalformedTopology
    /\ calls >= 2
    /\ last.op = "closure"
    /\ last.outcome = "KeyError"

\* ----------------------------------------------- claims on the two caches
\* the map entity_support_dofs() has returned
SupportValue == support_cache[1].value

NumDims == Cardinality(DOMAIN elem.cell.sub_entities)

NumEntitiesWithDofs ==
    SumOver(DOMAIN elem.entity_dofs,
            [d \in DOMAIN elem.entity_dofs |-> Cardinality(DOMAIN elem.entity_dofs[d])])

C3_AtMostOnce ==
    /\ Cardinality(ret_closure) <= 1
    /\ Cardinality(ret_support) <= 1
    /\ closure_cache # <<>> =>
          /\ probes.entity_dofs = 1
          /\ ret_closure \subseteq {closure_cache[1].id}
    /\ support_cache # <<>> => ret_support \subseteq {support_cache[1].id}
    /\ probes.make_quadrature <= NumDims
    /\ probes.basis_evaluation <= NumEntitiesWithDofs

C3_NoRecomputation ==
    /\ closure_cache # <<>> =>
          /\ closure_cache' = closure_cache
          /\ probes'.entity_dofs = probes.entity_dofs
    /\ support_cache # <<>> =>
          /\ support_cache' = support_cache
          /\ probes'.make_quadrature = probes.make_quadrature
          /\ probes'.basis_evaluation = probes.basis_evaluation
          /\ sup'.pc = "idle"

\* C3: over any sequence of entity_closure_dofs() and entity_support_dofs()
\* calls on one element, each computation completes at most once, the
\* collaborators (entity_dofs() for the closure, make_quadrature,
\* basis_evaluation) are not invoked again once it has, and every call of
\* one accessor returns the same object.
C3_ComputedOnce == []C3_AtMostOnce /\ [][C3_NoRecomputation]_vars

\* C3 witness: both accessors have answered, one of them from its cache.
C3_Witness ==
    /\ calls >= 3
    /\ ret_closure # {}
    /\ ret_support # {}
    /\ sup.pc = "idle"

\* ------------------------------------------- claims on the support DOFs
\* C5: when result[f] has been built for an entity, DOF id k - the row-major
\* position of a basis index in the index_shape array - is in it if and
\* only if the integral of that basis function is strictly greater than
\* 1e-8 (an integral equal to 1e-8 is left out), and the list is ascending.
C5_StrictTolerance ==
    (sup.pc = "entities" /\ sup.f # -1) =>
        /\ StrictlyAscending(sup.result[sup.f])
        /\ \A idx \in MultiIndices(elem.index_shape) :
              (RowMajor(idx, elem.index_shape) \in Range(sup.result[sup.f]))
                  <=> (sup.arr[idx] > Eps)
        /\ Range(sup.result[sup.f]) \subseteq 0..(Product(elem.index_shape) - 1)

\* C5 witness: on a two-axis index shape, one integral is exactly 1e-8 and
\* its DOF is left out while a later DOF with a larger integral is listed.
C5_Witness ==
    /\ sup.pc = "entities"
    /\ sup.f # -1
    /\ elem.index_shape = <<2, 2>>
    /\ sup.arr[<<0, 1>>] = Eps
    /\ sup.arr[<<1, 0>>] > Eps
    /\ sup.arr[<<0, 0>>] = 0
    /\ sup.result[sup.f] = <<2>>

\* C6: for an element whose basis functions vanish on the entities whose
\* closure does not hold their DOF (a nodal element; the degree-1 Lagrange
\* element on the triangle), entity_support_dofs()[d][e] is a subset of
\* entity_closure_dofs()[d][e] for every entity.
C6_SupportWithinClosure ==
    (elem.kind \in {"nodal", "lagrange1"} /\ support_cache # <<>>) =>
        \A d \in DOMAIN SupportValue : \A e \in DOMAIN SupportValue[d] :
            Range(SupportValue[d][e])
                \subseteq Range(EntityClosureDofsBody(elem).value[d][e])

\* C6 witness: degree-1 Lagrange on the triangle; every vertex supports its
\* own DOF only, an edge the DOFs of its two vertices, the cell all three.
C6_Witness ==
    /\ elem.kind = "lagrange1"
    /\ elem.cell.name = "triangle"
    /\ support_cache # <<>>
    /\ EntityClosureDofsBody(elem).value[<<1>>][0] = <<1, 2>>
    /\ \A v \in 0..2 : SupportValue[<<0>>][v] = <<v>>
    /\ SupportValue[<<1>>][0] = <<1, 2>>
    /\ SupportValue[<<1>>][1] = <<0, 2>>
    /\ SupportValue[<<2>>][0] = <<0, 1, 2>>

C9_WholeMap ==
    /\ support_cache # <<>> =>
          /\ DOMAIN SupportValue = DOMAIN elem.cell.sub_entities
          /\ \A d \in DOMAIN SupportValue :
                DOMAIN SupportValue[d] = DOMAIN elem.entity_dofs[d]
          /\ probes.make_quadrature = NumDims
          /\ probes.basis_evaluation = NumEntitiesWithDofs
    /\ (support_cache # <<>> /\ last.op = "function") =>
          last.ret = SupportValue[last.dim]

C9_LaterQueriesFree ==
    support_cache # <<>> =>
        /\ probes'.make_quadrature = probes.make_quadrature
        /\ probes'.basis_evaluation = probes.basis_evaluation
        /\ support_cache' = support_cache

\* C9: the first query of the support DOFs, by the method or by the free
\* function for one dimension, computes the whole map - an entry for every
\* dimension of cell.sub_entities and every entity id of entity_dofs() at
\* it, one quadrature rule per dimension and one basis_evaluation per
\* entity - and a later query of any dimension is answered from it with no
\* further quadrature or basis_evaluation call.
C9_EagerWholeMap == []C9_WholeMap /\ [][C9_LaterQueriesFree]_vars

\* C9 witness: only the free function was used, for two different
\* dimensions, and the second answer came from the map the first one built.
C9_Witness ==
    /\ support_cache # <<>>
    /\ ret_support = {}
    /\ Cardinality(asked) = 2
    /\ calls = 2
    /\ last.op = "function"
    /\ sup.pc = "idle"
    /\ probes.make_quadrature = NumDims

\* ----------------------------------------------- claims on permutations()
\* the table the last permutations() call returned
LastTable == tables[Len(tables)]

\* n: the per-entity DOF count at the dimension
PerEntityDofs(d) == CHOOSE n \in DofCounts(elem, d) : TRUE

\* m: the number of facets (vertices) of an entity of the dimension
FacetsOf(top, d) == CHOOSE m \in ConeSizes(top, d) : TRUE

\* the orientation ids 0 .. factorial(m)*2 - 1
OrientationIds(m) == 0..(Factorial(m) * 2 - 1)

\* the keys the table of a product cell has at dimension d
ProductKeys(d) ==
    {<<i0, i1>> :
        i0 \in OrientationIds(FacetsOf(elem.cell.cells[1], <<d[1]>>)),
        i1 \in OrientationIds(FacetsOf(elem.cell.cells[2], <<d[2]>>))}

\* every list of the returned table is the identity of length n
IdentityValues ==
    \A d \in DOMAIN LastTable : \A o \in DOMAIN LastTable[d] :
        heap[LastTable[d][o]] = [i \in 1..PerEntityDofs(d) |-> i - 1]

JustReturnedTable == last.op = "permutations" /\ last.outcome = "ok"

\* C4 as stated: on a single cell every dimension, d = 0 included, has the
\* keys 0 .. factorial(m)*2 - 1.
C4_AsStated ==
    JustReturnedTable =>
        /\ DOMAIN LastTable = DOMAIN elem.entity_dofs
        /\ IdentityValues
        /\ \A d \in DOMAIN LastTable :
              DOMAIN LastTable[d] =
                  IF elem.cell.product THEN ProductKeys(d)
                  ELSE OrientationIds(FacetsOf(elem.cell.topology, d))

\* C4 (amended): for every dimension d of entity_dofs(), permutations()[d]
\* has exactly the keys 0 .. factorial(m)*2 - 1 on a single cell when d > 0,
\* exactly the one key 0 on a single cell when d = 0, and exactly the pairs
\* (i0, i1) below factorial(m0)*2 and factorial(m1)*2 on a product cell;
\* every value is the identity permutation [0, ..., n-1].
C4_TableShape ==
    JustReturnedTable =>
        /\ DOMAIN LastTable = DOMAIN elem.entity_dofs
        /\ IdentityValues
        /\ \A d \in DOMAIN LastTable :
              DOMAIN LastTable[d] =
                  IF elem.cell.product THEN ProductKeys(d)
                  ELSE IF d = <<0>> THEN {0}
                  ELSE OrientationIds(FacetsOf(elem.cell.topology, d))

\* C4 witness: a table of the triangle with DOFs on its edges: one key for
\* the vertices, four for the edges, twelve for the cell.
C4_Witness ==
    /\ JustReturnedTable
    /\ elem.cell.name = "triangle"
    /\ PerEntityDofs(<<1>>) = 2
    /\ Cardinality(DOMAIN LastTable[<<0>>]) = 1
    /\ Cardinality(DOMAIN LastTable[<<1>>]) = 4
    /\ Cardinality(DOMAIN LastTable[<<2>>]) = 12
    /\ heap[LastTable[<<1>>][3]] = <<0, 1>>

\* the entities of some dimension differ in their DOF count
UnequalDofCounts ==
    \E d \in DOMAIN elem.entity_dofs : Cardinality(DofCounts(elem, d)) # 1

\* the entities of some dimension differ in their number of facets
UnequalFacetCounts ==
    \E d \in DOMAIN elem.cell.topology :
        Cardinality(ConeSizes(elem.cell.topology, d)) # 1

\* C8: if the entities of one dimension differ in their DOF count, or in
\* their number of facets, every permutations() call fails with the
\* ValueError and no table is ever returned.
C8_UnequalCountsRaise ==
    (UnequalDofCounts \/ UnequalFacetCounts) =>
        /\ tables = <<>>
        /\ heap = <<>>
        /\ last.op = "permutations" => last.outcome = "ValueError"

\* C8 witness: a failed call on an element whose vertices differ in their
\* DOF count while the cell is regular.
C8_Witness ==
    /\ elem.cell.name = "interval"
    /\ UnequalDofCounts
    /\ ~UnequalFacetCounts
    /\ Cardinality(DofCounts(elem, <<0>>)) = 2
    /\ calls >= 2
    /\ last.op = "permutations"
    /\ last.outcome = "ValueError"

\* the list objects a table refers to
ListsOf(t) == UNION {Range(tables[t][d]) : d \in DOMAIN tables[t]}

C10_Aliasing ==
    /\ \A t \in 1..Len(tables) : \A d \in DOMAIN tables[t] :
          \A o1, o2 \in DOMAIN tables[t][d] : tables[t][d][o1] = tables[t][d][o2]
    /\ \A t1, t2 \in 1..Len(tables) : t1 # t2 => ListsOf(t1) \cap ListsOf(t2) = {}

C10_FreshTables ==
    /\ Len(tables') > Len(tables) =>
          \A d \in DOMAIN tables'[Len(tables')] :
              \A o \in DOMAIN tables'[Len(tables')][d] :
                  /\ heap'[tables'[Len(tables')][d][o]]
                         = [i \in 1..PerEntityDofs(d) |-> i - 1]
                  /\ tables'[Len(tables')][d][o] \notin DOMAIN heap
    /\ \A t \in 1..Len(tables) : \A d \in DOMAIN tables[t] :
          \A o1, o2 \in DOMAIN tables[t][d] :
              heap'[tables[t][d][o1]] = heap'[tables[t][d][o2]]
    /\ (Len(tables') = Len(tables) /\ heap' # heap) =>
          \A t \in 1..Len(tables) :
              t # last'.dim[1] =>
                  \A id \in ListsOf(t) : heap'[id] = heap[id]

\* C10: within one returned table all orientation keys of a dimension refer
\* to one list object, so a modification made through one key is seen
\* through every other key of that dimension; the tables of two calls share
\* no list, a new table holds identity lists whatever was done to earlier
\* tables, and a modification of one table leaves the others as they were.
C10_SharedWithinFreshAcross == []C10_Aliasing /\ [][C10_FreshTables]_vars

\* C10 witness: a list of the first table was modified, seen through two
\* different keys, and a later call returned an unmodified table.
C10_Witness ==
    /\ Len(tables) >= 2
    /\ mutations >= 1
    /\ JustReturnedTable
    /\ \E d \in DOMAIN tables[1] : \E o1, o2 \in DOMAIN tables[1][d] :
          /\ o1 # o2
          /\ heap[tables[1][d][o1]] # heap[LastTable[d][o1]]
          /\ heap[tables[1][d][o2]] = heap[tables[1][d][o1]]

====
